---- MODULE Spec2Model ----
(***************************************************************************)
(* Model of the cursillos back end: GET /api/videos/stream/:id with its    *)
(* Range handling and views counter and DELETE /api/videos/:id             *)
(* (backend/routes/videos.js), enrollment (courses routes), the file       *)
(* download (files routes), user status, role, update and deletion        *)
(* (backend/routes/users.js), video upload, registration, the soft         *)
(* deletion of a course, behind authMiddleware / adminMiddleware           *)
(* (backend/middleware/auth.js).                                           *)
(*                                                                         *)
(* Strings are sequences of one-character strings, so that the header      *)
(* parsing (replace, split, parseInt) is computed as the code computes it. *)
(***************************************************************************)
EXTENDS Integers, Sequences, FiniteSets

VARIABLES users, courses, videos, disk, req, del, pendingInc, proc,
          enr, adm, dl, files, pendingDl, deactivated, up, reg, accounts

vars == <<users, courses, videos, disk, req, del, pendingInc, proc,
          enr, adm, dl, files, pendingDl, deactivated, up, reg, accounts>>

(***************************************************************************)
(* Bounds                                                                  *)
(***************************************************************************)
\* Largest on-disk length of a video file, in bytes.
MaxLen == 3

\* Bytes one read of a read stream delivers (its highWaterMark, scaled down).
ChunkLen == 1

\* Concurrent stream requests (each slot carries one request).
Reqs == {"r1", "r2"}

(***************************************************************************)
(* JavaScript values and string functions                                  *)
(***************************************************************************)
\* A JavaScript number is [num |-> n], NaN or Infinity; an absent value is a
\* record of its own, so that it differs from every present one.
Num(n) == [num |-> n]
NaN == [nan |-> TRUE]
Infinity == [inf |-> TRUE]
IsInt(x) == x # NaN /\ x # Infinity
NoRange == [absent |-> TRUE]
NoVideo == [null |-> TRUE]
NoHead == [none |-> TRUE]
NoFd == <<>>
None == "none"

Digits == <<"0", "1", "2", "3", "4", "5", "6", "7", "8", "9">>

IsDigit(c) == \E i \in 1..10 : Digits[i] = c

DigitVal(c) == (CHOOSE i \in 1..10 : Digits[i] = c) - 1

Min(a, b) == IF a < b THEN a ELSE b

\* Number -> decimal string (template literal / header text), n >= 0.
RECURSIVE ToStr(_)
ToStr(n) ==
    IF n < 10 THEN <<Digits[n + 1]>>
    ELSE ToStr(n \div 10) \o <<Digits[(n % 10) + 1]>>

\* Does pat occur in s at (1-based) position i ?
MatchAt(s, pat, i) ==
    /\ i + Len(pat) - 1 <= Len(s)
    /\ \A k \in 1..Len(pat) : s[i + k - 1] = pat[k]

BytesEq == <<"b", "y", "t", "e", "s", "=">>

\* range.replace(/bytes=/, ""): the first occurrence, wherever it is, is removed.
ReplaceBytesEq(s) ==
    IF \E i \in 1..Len(s) : MatchAt(s, BytesEq, i)
    THEN LET i == CHOOSE j \in 1..Len(s) :
                    /\ MatchAt(s, BytesEq, j)
                    /\ \A k \in 1..(j - 1) : ~MatchAt(s, BytesEq, k)
         IN SubSeq(s, 1, i - 1) \o SubSeq(s, i + Len(BytesEq), Len(s))
    ELSE s

\* s.split("-"): the sequence of the parts between the dashes (never empty).
RECURSIVE SplitDash(_)
SplitDash(s) ==
    IF \E i \in 1..Len(s) : s[i] = "-"
    THEN LET i == CHOOSE j \in 1..Len(s) :
                    /\ s[j] = "-"
                    /\ \A k \in 1..(j - 1) : s[k] # "-"
         IN <<SubSeq(s, 1, i - 1)>> \o SplitDash(SubSeq(s, i + 1, Len(s)))
    ELSE <<s>>

\* parts[i] (0-based) is a non-empty string: neither undefined (past the end
\* of the array) nor "".
TruthyPart(parts, i) == i + 1 <= Len(parts) /\ parts[i + 1] # <<>>

RECURSIVE SkipSpaces(_)
SkipSpaces(s) == IF s # <<>> /\ Head(s) = " " THEN SkipSpaces(Tail(s)) ELSE s

RECURSIVE DigitsValue(_, _)
DigitsValue(s, acc) ==
    IF s # <<>> /\ IsDigit(Head(s))
    THEN DigitsValue(Tail(s), 10 * acc + DigitVal(Head(s)))
    ELSE acc

\* parseInt(s, 10): leading blanks are skipped, one sign is accepted, the
\* longest run of digits is read; no digit there gives NaN.
ParseInt(s) ==
    LET t == SkipSpaces(s)
        neg == t # <<>> /\ Head(t) = "-"
        u == IF t # <<>> /\ Head(t) \in {"-", "+"} THEN Tail(t) ELSE t
    IN IF u = <<>> \/ ~IsDigit(Head(u)) THEN NaN
       ELSE IF neg THEN Num(0 - DigitsValue(u, 0)) ELSE Num(DigitsValue(u, 0))

(***************************************************************************)
(* Data                                                                    *)
(***************************************************************************)
Users == {"a1", "s1", "s2"}

NoToken == "no-token"
BadToken == "bad-token"

\* What a request's Authorization header can carry: nothing, a token that does
\* not verify, or a token issued to a user (jwt.verify gives decoded.id).
Tokens == {NoToken, BadToken} \cup Users

Courses == {"c1"}

VideoIds == {"v1"}

\* An id no Video record ever had.
UnknownId == "v0"

\* The id the Video document of an upload gets.
NewVideoIds == {"v2"}

RequestIds == VideoIds \cup {UnknownId}

MimeTypes == {"video/mp4", "video/webm"}

PathOf(v) == <<"uploads", v>>

FileIds == {"f1"}

\* The path the upload middleware stored the file of File record f under.
FilePathOf(f) == <<"uploads", "files", f>>

Paths ==
    {PathOf(v) : v \in VideoIds \cup NewVideoIds}
    \cup {FilePathOf(f) : f \in FileIds}

\* disk[path] is the file created at path (upload names are never reused):
\* linked says whether the path still names it, data are its bytes, which a
\* handle opened before the unlink still reads.
\* The bytes of a file of length n: byte i (0-based) is written i.
Content(n) == [i \in 1..n |-> i - 1]

\* The Range header values requests are drawn from.
\* The numbers they are written with: every offset of the file, the first one
\* past it, and a two-digit one.
Offsets == 0..(MaxLen + 1) \cup {MaxLen + 10}

StartTexts == {<<>>, <<"x">>} \cup {ToStr(n) : n \in 0..(MaxLen + 1)}

EndTexts == {<<>>, <<"x">>} \cup {ToStr(n) : n \in Offsets}

Hdr(st, en) == BytesEq \o st \o <<"-">> \o en

RangeHeaders ==
    {NoRange}
    \cup {[text |-> t] :
            t \in {Hdr(st, en) : st \in StartTexts, en \in EndTexts}
                  \cup { <<>>,
                         <<"0", "-", "0">>,
                         BytesEq \o <<"1">>,
                         Hdr(<<"0">>, <<"0", ",", "1", "-", "1">>),
                         Hdr(<<" ", "0">>, <<"+", "1">>) }}

\* The headers of the requests that run concurrently.
\* Range headers naming a range inside a file of up to MaxLen bytes, closed
\* (bytes=s-e) and open-ended (bytes=s-).
PairHeaders ==
    {[text |-> Hdr(ToStr(st), ToStr(en))] :
        st \in 0..(MaxLen - 1), en \in 0..(MaxLen - 1)}
    \cup {[text |-> Hdr(ToStr(st), <<>>)] : st \in 0..(MaxLen - 1)}

FewHeaders ==
    {NoRange, [text |-> Hdr(<<"0">>, <<>>)], [text |-> Hdr(<<"0">>, <<"0">>)],
     [text |-> Hdr(<<"x">>, <<>>)]}

\* The server process: running, or ended by an exception nothing caught or by
\* a promise rejection nothing handled (server.js installs no handler for
\* either).
Up == "up"
UncaughtException == "uncaughtException"
UnhandledRejection == "unhandledRejection"

IdleReq ==
    [pc |-> "idle", user |-> None, role |-> None, id |-> None,
     video |-> NoVideo, enrolled |-> <<>>, range |-> NoRange,
     status |-> 0, head |-> NoHead,
     first |-> Num(0), last |-> Infinity, fd |-> NoFd, pos |-> 0,
     body |-> <<>>, closed |-> FALSE, left |-> {}]

\* The requests to POST and DELETE /api/courses/:id/enroll in progress.
Enrs == {"e1", "e2"}

CourseIds == Courses \cup {"c0"}

\* Course.findById found nothing.
NoCourse == [null |-> TRUE]

IdleEnr ==
    [pc |-> "idle", method |-> None, token |-> None, user |-> None, id |-> None,
     course |-> NoCourse, status |-> 0]

\* A JSON value of a request body: true, false, or something not a boolean.
Bool(b) == [bool |-> b]

NotBoolean == [str |-> "x"]

\* The requests to the other guarded routes in progress.
Adms == {"m1", "m2"}

UserIds == Users \cup {"u0"}

\* A body field that was not sent.
Undefined == [undefined |-> TRUE]

\* The role values request bodies carry: none (or ''), the two roles, and a
\* string that is no role.
RoleValues == {"", "student", "admin", "root"}

IdleAdm ==
    [pc |-> "idle", route |-> None, token |-> None, user |-> None,
     userRole |-> None, target |-> None,
     isActive |-> NotBoolean, loaded |-> FALSE,
     role |-> "", loadedRole |-> "", listed |-> {}, status |-> 0]

NoFile == [null |-> TRUE]

\* One request to GET /api/files/download/:id.
IdleDl ==
    [pc |-> "idle", user |-> None, role |-> None, id |-> None,
     file |-> NoFile, enrolled |-> <<>>, status |-> 0, head |-> NoHead,
     fd |-> NoFd, pos |-> 0, body |-> <<>>]

\* One request to POST /api/videos/upload.
IdleUp ==
    [pc |-> "idle", token |-> None, user |-> None, id |-> None,
     path |-> None, courseId |-> None, status |-> 0]

\* The requests to POST /api/auth/register in progress.
Regs == {"g1", "g2"}

IdleReg == [pc |-> "idle", email |-> <<>>, status |-> 0]

IdleDel ==
    [pc |-> "idle", token |-> None, user |-> None, role |-> None, id |-> None,
     video |-> NoVideo, status |-> 0]

Init ==
    /\ users = [u \in Users |->
                  [role |-> IF u = "a1" THEN "admin" ELSE "student",
                   isActive |-> TRUE,
                   enrolledCourses |-> IF u = "s1" THEN {"c1"} ELSE {}]]
    /\ courses = [c \in Courses |->
                    [enrolledStudents |-> <<"s1">>, videos |-> VideoIds,
                     isActive |-> TRUE, version |-> 0]]
    /\ \E n \in 0..MaxLen, m \in MimeTypes :
          /\ videos = [v \in VideoIds \cup NewVideoIds |->
                         IF v \in VideoIds
                         THEN [filePath |-> PathOf(v), fileSize |-> n,
                               mimeType |-> m, course |-> "c1", views |-> 0]
                         ELSE NoVideo]
          /\ files = [f \in FileIds |->
                        [filePath |-> FilePathOf(f), fileSize |-> n,
                         mimeType |-> "application/pdf", course |-> "c1",
                         isActive |-> TRUE, downloads |-> 0]]
          /\ disk = [p \in Paths |->
                       IF p \in {PathOf(v) : v \in NewVideoIds}
                       THEN [linked |-> FALSE, data |-> <<>>]
                       ELSE [linked |-> TRUE, data |-> Content(n)]]
    /\ req = [r \in Reqs |-> IdleReq]
    /\ del = IdleDel
    /\ pendingInc = [v \in VideoIds |-> 0]
    /\ proc = Up
    /\ enr = [e \in Enrs |-> IdleEnr]
    /\ adm = [a \in Adms |-> IdleAdm]
    /\ dl = IdleDl
    /\ pendingDl = [f \in FileIds |-> 0]
    /\ deactivated = {}
    /\ up = IdleUp
    /\ reg = [g \in Regs |-> IdleReg]
    /\ accounts = <<>>

(***************************************************************************)
(* authMiddleware and adminMiddleware                                      *)
(***************************************************************************)
\* The status authMiddleware answers with, 0 when it calls next().
\* Mutant: authMiddleware does not look at isActive.
AuthStatusAnyUser(token) ==
    IF token = NoToken THEN 401
    ELSE IF token = BadToken THEN 401
    ELSE IF token \notin DOMAIN users THEN 401
    ELSE 0

AuthStatus(token) ==
    IF token = NoToken THEN 401
    ELSE IF token = BadToken THEN 401
    ELSE IF token \notin DOMAIN users THEN 401
    ELSE IF ~users[token].isActive THEN 401
    ELSE 0

\* The status adminMiddleware answers with, 0 when it calls next().
AdminStatus(user, role) ==
    IF user = None THEN 401
    ELSE IF role # "admin" THEN 403
    ELSE 0

\* The routes declared with authMiddleware, adminMiddleware (in this order)
\* before their handler.
AdminGuarded ==
    {"videoUpload", "videoUpdate", "videoDelete",
     "courseCreate", "courseUpdate", "courseDelete",
     "fileUpload", "fileUpdate", "fileDelete",
     "userList", "userRole", "userStatus", "userDelete", "userStats"}

\* The routes declared with authMiddleware alone.
AuthGuarded ==
    {"videoStream", "videoCourse", "videoGet",
     "courseEnroll", "courseUnenroll", "courseEnrolled",
     "fileDownload", "fileCourse", "fileVideo", "fileGet",
     "userGet", "userUpdate"}

\* Mutant: the admin-only routes are declared with authMiddleware alone.
GuardsAuthOnly(route) ==
    IF route \in AdminGuarded \cup AuthGuarded THEN <<"authMiddleware">>
    ELSE <<>>

\* The middlewares a route runs before its handler.
Guards(route) ==
    IF route \in AdminGuarded THEN <<"authMiddleware", "adminMiddleware">>
    ELSE IF route \in AuthGuarded THEN <<"authMiddleware">>
    ELSE <<>>

\* The status the middlewares of a route answer a request with, 0 when the
\* handler is reached.
GuardStatus(route, token) ==
    LET Has(m) == \E i \in DOMAIN Guards(route) : Guards(route)[i] = m
        a == IF Has("authMiddleware") THEN AuthStatus(token) ELSE 0
        user == IF Has("authMiddleware") /\ a = 0 THEN token ELSE None
        role == IF user = None THEN None ELSE users[user].role
    IN IF a # 0 THEN a
       ELSE IF Has("adminMiddleware") THEN AdminStatus(user, role)
       ELSE 0

(***************************************************************************)
(* GET /api/videos/stream/:id : the pure part                              *)
(***************************************************************************)
\* req.headers.range is a non-empty string.
Truthy(range) == range # NoRange /\ range.text # <<>>

RangeParts(range) == SplitDash(ReplaceBytesEq(range.text))

RangeStart(range) == ParseInt(RangeParts(range)[1])

\* Mutant: an omitted end defaults to the length, not to the last offset.
RangeEndLength(range, fileSize) ==
    IF TruthyPart(RangeParts(range), 1)
    THEN ParseInt(RangeParts(range)[2])
    ELSE Num(fileSize)

RangeEnd(range, fileSize) ==
    IF TruthyPart(RangeParts(range), 1)
    THEN ParseInt(RangeParts(range)[2])
    ELSE Num(fileSize - 1)

\* Mutant: the + 1 of the inclusive range is forgotten.
ChunksizeExclusive(start, end) == end.num - start.num

Chunksize(start, end) == (end.num - start.num) + 1

\* validateInteger(value, name, 0) of the stream constructor accepts the value.
ValidInteger(x) == IsInt(x) /\ x.num >= 0

\* fs.createReadStream(videoPath, { start, end }) throws: start or end is not
\* an integer >= 0, or start > end.
ReadStreamThrows(start, end) ==
    \/ ~ValidInteger(start)
    \/ /\ end # Infinity
       /\ (~ValidInteger(end) \/ start.num > end.num)

\* video.mimeType || 'video/mp4'
ContentType(mimeType) == IF mimeType # "" THEN mimeType ELSE "video/mp4"

BytesSp == <<"b", "y", "t", "e", "s", " ">>

\* `bytes ${start}-${end}/${fileSize}`
ContentRange(start, end, fileSize) ==
    BytesSp \o ToStr(start) \o <<"-">> \o ToStr(end) \o <<"/">> \o ToStr(fileSize)

Head206(start, end, fileSize, mimeType) ==
    [ContentRange |-> ContentRange(start.num, end.num, fileSize),
     AcceptRanges |-> "bytes",
     ContentLength |-> Chunksize(start, end),
     ContentType |-> ContentType(mimeType)]

\* Mutant: the full response announces one byte less than the file has.
Head200Short(fileSize, mimeType) ==
    [ContentLength |-> fileSize - 1, ContentType |-> ContentType(mimeType)]

Head200(fileSize, mimeType) ==
    [ContentLength |-> fileSize, ContentType |-> ContentType(mimeType)]

\* Mutant: the end option is taken as exclusive.
ReadLimitExclusive(data, last) ==
    IF last = Infinity THEN Len(data) ELSE Min(last.num, Len(data))

\* The offset after the last byte a read stream with option end = last
\* delivers from a file: last + 1, cut at end-of-file.

ReadLimit(data, last) ==
    IF last = Infinity THEN Len(data) ELSE Min(last.num + 1, Len(data))

\* One read of the stream at offset pos: at most ChunkLen bytes, none at or
\* after the limit.
ReadBytes(data, pos, last) ==
    SubSeq(data, pos + 1, Min(pos + ChunkLen, ReadLimit(data, last)))

\* Video.findById(id): the document the handlers go on with (of its fields they
\* read filePath, mimeType and course), or null.
FindById(vs, id) ==
    IF id \in DOMAIN vs /\ vs[id] # NoVideo
    THEN [filePath |-> vs[id].filePath, mimeType |-> vs[id].mimeType,
          course |-> vs[id].course]
    ELSE NoVideo

\* Mutant: the existence check is skipped.
ExistsSyncSkipped(d, path) == TRUE

\* fs.existsSync(videoPath)
ExistsSync(d, path) == d[path].linked

\* A response that carries no file bytes: res.status(code).json(...).
JsonResponse(code) ==
    [status |-> code, head |-> NoHead, first |-> Num(0), last |-> Infinity,
     streams |-> FALSE]

\* enrolledStudents.some(studentId => studentId.toString() === user id)
IsEnrolled(enrolledStudents, user) ==
    \E i \in DOMAIN enrolledStudents : enrolledStudents[i] = user

\* Mutant: the access check refuses nobody.
StreamDeniedNever(isEnrolled, isAdmin) == FALSE

\* if (!isEnrolled && !isAdmin) of the stream handler
StreamDenied(isEnrolled, isAdmin) == ~isEnrolled /\ ~isAdmin

\* The handler from the result of Video.findById(...).populate(...) on: the
\* response it writes and the read stream it creates, for the populated video,
\* the requester (req.user), the disk and the Range header.
StreamResponse(video, enrolled, user, role, d, range) ==
    IF video = NoVideo THEN JsonResponse(404)
    ELSE IF StreamDenied(IsEnrolled(enrolled, user), role = "admin")
         THEN JsonResponse(403)
    ELSE IF ~ExistsSync(d, video.filePath) THEN JsonResponse(404)
    ELSE IF ~d[video.filePath].linked THEN JsonResponse(500)  \* statSync throws
    ELSE LET fileSize == Len(d[video.filePath].data)
         IN IF Truthy(range)
            THEN LET start == RangeStart(range)
                     end == RangeEnd(range, fileSize)
                 IN IF ReadStreamThrows(start, end) THEN JsonResponse(500)
                    ELSE [status |-> 206,
                          head |-> Head206(start, end, fileSize, video.mimeType),
                          first |-> start, last |-> end, streams |-> TRUE]
            ELSE [status |-> 200,
                  head |-> Head200(fileSize, video.mimeType),
                  first |-> Num(0), last |-> Infinity, streams |-> TRUE]

\* Mutant: the increment is dispatched before the access check.
IncReachedEarly(resp) == resp.streams \/ resp.status = 403

\* Does the handler reach the statement that dispatches the views increment?
\* It stands after both streaming branches; the 404 and 403 answers return
\* before it and an exception jumps over it to the catch block.
IncReached(resp) == resp.streams

\* Mutant: the update sets the counter instead of incrementing it.
SetViews(views) == 1

\* { $inc: { views: 1 } }
IncViews(views) == views + 1

(***************************************************************************)
(* GET /api/videos/stream/:id : the steps of one request                   *)
(***************************************************************************)
\* The courses user u had left, by a DELETE /:id/enroll answered 200, at this
\* moment (history, kept with a request to tell which unenrollments it
\* comes after).
LeftCourses(u) ==
    {c \in Courses : \E e \in Enrs : /\ enr[e].method = "DELETE"
                                      /\ enr[e].status = 200
                                      /\ enr[e].user = u
                                      /\ enr[e].id = c}

\* authMiddleware: the token is verified and the user is loaded.
StreamAuth(r, token) ==
    /\ proc = Up
    /\ req[r].pc = "idle"
    /\ req' = [req EXCEPT ![r] =
                 IF AuthStatus(token) = 0
                 THEN [@ EXCEPT !.pc = "auth", !.user = token,
                                !.role = users[token].role,
                                !.left = LeftCourses(token)]
                 ELSE [@ EXCEPT !.pc = "done", !.status = AuthStatus(token)]]
    /\ UNCHANGED <<users, courses, videos, disk, del, pendingInc, proc,
                 enr, adm, dl, files, pendingDl, deactivated, up, reg, accounts>>

\* Video.findById(req.params.id).populate('course', ...): the query is answered.
StreamFind(r, id) ==
    /\ proc = Up
    /\ req[r].pc = "auth"
    /\ LET video == FindById(videos, id)
       IN req' = [req EXCEPT ![r] =
                    [@ EXCEPT !.pc = "found", !.id = id, !.video = video,
                              !.enrolled = IF video = NoVideo THEN <<>>
                                           ELSE courses[video.course].enrolledStudents]]
    /\ UNCHANGED <<users, courses, videos, disk, del, pendingInc, proc,
                 enr, adm, dl, files, pendingDl, deactivated, up, reg, accounts>>

\* The rest of the handler runs without yielding: access check, existsSync,
\* statSync, Range parsing, createReadStream, writeHead, pipe, and the
\* dispatch of the views increment.
StreamHandle(r, range) ==
    /\ proc = Up
    /\ req[r].pc = "found"
    /\ LET resp == StreamResponse(req[r].video, req[r].enrolled, req[r].user,
                                  req[r].role, disk, range)
       IN /\ req' = [req EXCEPT ![r] =
                       [@ EXCEPT !.pc = IF resp.streams THEN "streaming" ELSE "done",
                                 !.range = range,
                                 !.status = resp.status,
                                 !.head = resp.head,
                                 !.first = resp.first,
                                 !.last = resp.last,
                                 !.pos = IF resp.streams THEN resp.first.num
                                         ELSE 0]]
          /\ pendingInc' = IF IncReached(resp)
                           THEN [pendingInc EXCEPT ![req[r].id] = @ + 1]
                           ELSE pendingInc
    /\ UNCHANGED <<users, courses, videos, disk, del, proc,
                 enr, adm, dl, files, pendingDl, deactivated, up, reg, accounts>>

\* The read stream opens the file (fs.open, asynchronously after the handler).
\* When the open fails the stream emits 'error'; pipe() listens for errors of
\* the destination only, so the event has no listener and is thrown.
StreamOpen(r) ==
    /\ proc = Up
    /\ req[r].pc = "streaming"
    /\ LET path == req[r].video.filePath
       IN IF ~disk[path].linked
          THEN /\ req' = [req EXCEPT ![r].pc = "ioerror"]
               /\ proc' = UncaughtException
          ELSE /\ req' = [req EXCEPT ![r].pc = "open", ![r].fd = path]
               /\ proc' = proc
    /\ UNCHANGED <<users, courses, videos, disk, del, pendingInc,
                 enr, adm, dl, files, pendingDl, deactivated, up, reg, accounts>>

\* Mutant: the streams of all requests read at one shared position.
ReadPosShared(rq, r) == rq["r1"].pos

\* The position the next read of request r's stream starts at: each request
\* has created its own stream, which keeps its own position.
ReadPos(rq, r) == rq[r].pos

\* One read of the stream, piped to the response: the bytes at the stream's
\* own position, which advances; after the last one the stream ends, closes
\* the file (autoClose) and ends the response. A stream whose destination has
\* closed is unpiped and reads no more.
StreamRead(r) ==
    /\ proc = Up
    /\ req[r].pc = "open"
    /\ ~req[r].closed
    /\ LET data == disk[req[r].fd].data
           chunk == ReadBytes(data, ReadPos(req, r), req[r].last)
           pos == ReadPos(req, r) + Len(chunk)
       IN req' = [req EXCEPT ![r] =
                    IF chunk = <<>> \/ pos >= ReadLimit(data, req[r].last)
                    THEN [@ EXCEPT !.pc = "done", !.fd = NoFd, !.pos = pos,
                                   !.body = @ \o chunk]
                    ELSE [@ EXCEPT !.pos = pos, !.body = @ \o chunk]]
    /\ UNCHANGED <<users, courses, videos, disk, del, pendingInc, proc,
                 enr, adm, dl, files, pendingDl, deactivated, up, reg, accounts>>

\* The database applies one dispatched findByIdAndUpdate(id, {$inc: {views: 1}}).
ApplyInc(v) ==
    /\ pendingInc[v] > 0
    /\ pendingInc' = [pendingInc EXCEPT ![v] = @ - 1]
    /\ videos' = IF videos[v] = NoVideo THEN videos
                 ELSE [videos EXCEPT ![v].views = IncViews(@)]
    /\ UNCHANGED <<users, courses, disk, req, del, proc,
                 enr, adm, dl, files, pendingDl, deactivated, up, reg, accounts>>

\* What the runtime does with a rejected promise nothing handles: it raises
\* it as an uncaught exception, which ends the process (the default since
\* Node 15; the README asks for Node 16 or later), or, started with
\* --unhandled-rejections=warn, it only logs a warning.
RejectionOutcomes == {UnhandledRejection, Up}

\* The database rejects one dispatched views increment: the promise .exec()
\* returned, which the handler neither awaits nor gives a catch, is rejected.
IncFail(v) ==
    /\ proc = Up
    /\ pendingInc[v] > 0
    /\ pendingInc' = [pendingInc EXCEPT ![v] = @ - 1]
    /\ proc' \in RejectionOutcomes
    /\ UNCHANGED <<users, courses, videos, disk, req, del,
                 enr, adm, dl, files, pendingDl, deactivated, up, reg, accounts>>

\* The client of a response that is being streamed disconnects: the response
\* emits 'close', on which pipe() unpipes the read stream; nothing destroys
\* the stream.
ClientClose(r) ==
    /\ proc = Up
    /\ req[r].pc \in {"streaming", "open"}
    /\ ~req[r].closed
    /\ req' = [req EXCEPT ![r].closed = TRUE]
    /\ UNCHANGED <<users, courses, videos, disk, del, pendingInc, proc,
                 enr, adm, dl, files, pendingDl, deactivated, up, reg, accounts>>

(***************************************************************************)
(* POST and DELETE /api/courses/:id/enroll                                 *)
(***************************************************************************)
FindCourse(cs, id) == IF id \in DOMAIN cs THEN cs[id] ELSE NoCourse

\* What POST /:id/enroll answers before it writes, 0 when it goes on.
EnrollStatus(course, user) ==
    IF course = NoCourse THEN 404
    ELSE IF ~course.isActive THEN 404
    ELSE IF IsEnrolled(course.enrolledStudents, user) THEN 400
    ELSE 0

\* What DELETE /:id/enroll answers before it writes, 0 when it goes on.
UnenrollStatus(course) == IF course = NoCourse THEN 404 ELSE 0

\* enrolledStudents.filter(studentId => studentId.toString() !== user id)
WithoutStudent(enrolledStudents, user) ==
    SelectSeq(enrolledStudents, LAMBDA x : x # user)

\* authMiddleware of either route.
EnrAuth(e, method, token) ==
    /\ proc = Up
    /\ enr[e].pc = "idle"
    /\ enr' = [enr EXCEPT ![e] =
                 IF AuthStatus(token) = 0
                 THEN [@ EXCEPT !.pc = "auth", !.method = method,
                                !.token = token, !.user = token]
                 ELSE [@ EXCEPT !.pc = "done", !.method = method,
                                !.token = token, !.status = AuthStatus(token)]]
    /\ UNCHANGED <<users, courses, videos, disk, req, del, pendingInc, proc,
                   adm, dl, files, pendingDl, deactivated, up, reg, accounts>>

\* Course.findById(req.params.id) is answered and the handler goes on with
\* the document it got: it answers 404 or 400, or changes enrolledStudents of
\* its document and issues course.save().
EnrFind(e, id) ==
    /\ proc = Up
    /\ enr[e].pc = "auth"
    /\ LET course == FindCourse(courses, id)
           status == IF enr[e].method = "POST"
                     THEN EnrollStatus(course, enr[e].user)
                     ELSE UnenrollStatus(course)
       IN enr' = [enr EXCEPT ![e] =
                    IF status # 0
                    THEN [@ EXCEPT !.pc = "done", !.id = id, !.status = status]
                    ELSE [@ EXCEPT !.pc = "saving", !.id = id, !.course = course]]
    /\ UNCHANGED <<users, courses, videos, disk, req, del, pendingInc, proc,
                   adm, dl, files, pendingDl, deactivated, up, reg, accounts>>

\* The database applies course.save(). The push of POST is sent as a $push
\* that increments the document's version. The array assigned by DELETE is
\* sent, when it differs from the one loaded, as a $set of the whole array
\* that requires the version loaded and increments it; a version that has
\* moved on makes save() throw (VersionError), which the catch block answers
\* with 500.
EnrSave(e) ==
    /\ proc = Up
    /\ enr[e].pc = "saving"
    /\ LET id == enr[e].id
           loaded == enr[e].course
           filtered == WithoutStudent(loaded.enrolledStudents, enr[e].user)
       IN IF enr[e].method = "POST"
          THEN /\ courses' = [courses EXCEPT
                                ![id].enrolledStudents = Append(@, enr[e].user),
                                ![id].version = @ + 1]
               /\ enr' = [enr EXCEPT ![e].pc = "saved"]
          ELSE IF filtered = loaded.enrolledStudents
          THEN /\ courses' = courses
               /\ enr' = [enr EXCEPT ![e].pc = "saved"]
          ELSE IF courses[id].version # loaded.version
          THEN /\ courses' = courses
               /\ enr' = [enr EXCEPT ![e].pc = "done", ![e].status = 500]
          ELSE /\ courses' = [courses EXCEPT
                                ![id].enrolledStudents = filtered,
                                ![id].version = @ + 1]
               /\ enr' = [enr EXCEPT ![e].pc = "saved"]
    /\ UNCHANGED <<users, videos, disk, req, del, pendingInc, proc,
                   adm, dl, files, pendingDl, deactivated, up, reg, accounts>>

\* The database applies User.findByIdAndUpdate ($addToSet or $pull of the
\* course in enrolledCourses) and the handler answers 200.
EnrUser(e) ==
    /\ proc = Up
    /\ enr[e].pc = "saved"
    /\ users' = [users EXCEPT ![enr[e].user].enrolledCourses =
                    IF enr[e].method = "POST" THEN @ \cup {enr[e].id}
                    ELSE @ \ {enr[e].id}]
    /\ enr' = [enr EXCEPT ![e].pc = "done", ![e].status = 200]
    /\ UNCHANGED <<courses, videos, disk, req, del, pendingInc, proc,
                   adm, dl, files, pendingDl, deactivated, up, reg, accounts>>

\* User.findByIdAndUpdate rejects (a database error after course.save() was
\* applied): the catch block answers 500 and the user document is as it was.
EnrUserFails(e) ==
    /\ proc = Up
    /\ enr[e].pc = "saved"
    /\ enr' = [enr EXCEPT ![e].pc = "done", ![e].status = 500]
    /\ UNCHANGED <<users, courses, videos, disk, req, del, pendingInc, proc,
                   adm, dl, files, pendingDl, deactivated, up, reg, accounts>>

(***************************************************************************)
(* The other guarded routes; PUT /api/users/:id/status, DELETE /api/users/:id *)
(***************************************************************************)
\* The middlewares of a route answer a request or let it reach the handler;
\* authMiddleware has set req.user when adminMiddleware runs.
AdmAuth(a, route, token) ==
    /\ proc = Up
    /\ adm[a].pc = "idle"
    /\ LET b == GuardStatus(route, token)
           user == IF AuthStatus(token) = 0 THEN token ELSE None
       IN adm' = [adm EXCEPT ![a] =
                    [@ EXCEPT !.pc = IF b = 0 THEN "handler" ELSE "done",
                              !.route = route, !.token = token,
                              !.user = user,
                              !.userRole = IF user = None THEN None
                                           ELSE users[user].role,
                              !.status = b]]
    /\ UNCHANGED <<users, courses, videos, disk, req, del, pendingInc, proc,
                   enr, dl, files, pendingDl, deactivated, up, reg, accounts>>

\* What PUT /:id/status answers before it writes, 0 when it goes on.
UserStatusStatus(value, target, user) ==
    IF "bool" \notin DOMAIN value THEN 400
    ELSE IF target \notin DOMAIN users THEN 404
    ELSE IF user = target /\ ~value.bool THEN 400
    ELSE 0

\* What DELETE /:id answers before it writes, 0 when it goes on.
UserDeleteStatus(target, user) ==
    IF target \notin DOMAIN users THEN 404
    ELSE IF user = target THEN 400
    ELSE 0

\* The handler of PUT /:id/status (body { isActive: value }) or DELETE /:id
\* up to its save: the checks, User.findById, and the assignment of isActive
\* (the value sent, or false) on the document loaded.
UserFind(a, target, value) ==
    /\ proc = Up
    /\ adm[a].pc = "handler"
    /\ adm[a].route \in {"userStatus", "userDelete"}
    /\ LET status == IF adm[a].route = "userStatus"
                     THEN UserStatusStatus(value, target, adm[a].user)
                     ELSE UserDeleteStatus(target, adm[a].user)
           isActive == IF adm[a].route = "userStatus" THEN value ELSE Bool(FALSE)
       IN adm' = [adm EXCEPT ![a] =
                    IF status # 0
                    THEN [@ EXCEPT !.pc = "done", !.target = target,
                                   !.status = status]
                    ELSE [@ EXCEPT !.pc = "saving", !.target = target,
                                   !.isActive = isActive,
                                   !.loaded = users[target].isActive]]
    /\ UNCHANGED <<users, courses, videos, disk, req, del, pendingInc, proc,
                   enr, dl, files, pendingDl, deactivated, up, reg, accounts>>

\* The database applies user.save(), which sends isActive when the value
\* assigned differs from the one loaded, and the handler answers 200. A user
\* whose deactivation or deletion was answered counts as deactivated from
\* then on (history).
UserSave(a) ==
    /\ proc = Up
    /\ adm[a].pc = "saving"
    /\ users' = IF adm[a].isActive.bool # adm[a].loaded
                THEN [users EXCEPT ![adm[a].target].isActive = adm[a].isActive.bool]
                ELSE users
    /\ deactivated' = IF adm[a].isActive.bool THEN deactivated
                      ELSE deactivated \cup {adm[a].target}
    /\ adm' = [adm EXCEPT ![a].pc = "done", ![a].status = 200]
    /\ UNCHANGED <<courses, videos, disk, req, del, pendingInc, proc,
                   enr, dl, files, pendingDl, up, reg, accounts>>

(***************************************************************************)
(* PUT /api/users/:id/role and PUT /api/users/:id                          *)
(***************************************************************************)
\* ['student', 'admin'].includes(role)
IsRole(role) == role \in {"student", "admin"}

\* What PUT /:id/role answers before it writes, 0 when it goes on.
UserRoleStatus(role, target, user) ==
    IF role = "" \/ ~IsRole(role) THEN 400
    ELSE IF target \notin DOMAIN users THEN 404
    ELSE IF user = target /\ role = "student" THEN 400
    ELSE 0

\* The handler of PUT /:id/role (body { role }) up to its save.
RoleFind(a, target, role) ==
    /\ proc = Up
    /\ adm[a].pc = "handler"
    /\ adm[a].route = "userRole"
    /\ LET status == UserRoleStatus(role, target, adm[a].user)
       IN adm' = [adm EXCEPT ![a] =
                    IF status # 0
                    THEN [@ EXCEPT !.pc = "done", !.target = target,
                                   !.status = status]
                    ELSE [@ EXCEPT !.pc = "writing", !.target = target,
                                   !.role = role,
                                   !.loadedRole = users[target].role,
                                   !.isActive = Undefined,
                                   !.loaded = users[target].isActive]]
    /\ UNCHANGED <<users, courses, videos, disk, req, del, pendingInc, proc,
                   enr, dl, files, pendingDl, deactivated, up, reg, accounts>>

\* What PUT /:id answers before it writes, 0 when it goes on: 403 for a
\* caller who is neither an admin nor the user named, 404 for no such user.
UserUpdateStatus(target, user, userRole) ==
    IF userRole # "admin" /\ user # target THEN 403
    ELSE IF target \notin DOMAIN users THEN 404
    ELSE 0

\* Mutant: the role of the body is assigned for any caller.
UpdateRoleAnyone(role, userRole) ==
    IF role # "" /\ IsRole(role) THEN role ELSE ""

\* The role PUT /:id assigns to the document, '' when it assigns none.
UpdateRole(role, userRole) ==
    IF userRole = "admin" /\ role # "" /\ IsRole(role) THEN role ELSE ""

\* The isActive PUT /:id assigns to the document, Undefined when none.
UpdateIsActive(isActive, userRole) ==
    IF userRole = "admin" /\ isActive # Undefined THEN isActive ELSE Undefined

\* The handler of PUT /:id (body { role, isActive, ... }) up to its save; the
\* name and avatar fields it also assigns are left out.
UpdateFind(a, target, role, isActive) ==
    /\ proc = Up
    /\ adm[a].pc = "handler"
    /\ adm[a].route = "userUpdate"
    /\ LET status == UserUpdateStatus(target, adm[a].user, adm[a].userRole)
       IN adm' = [adm EXCEPT ![a] =
                    IF status # 0
                    THEN [@ EXCEPT !.pc = "done", !.target = target,
                                   !.status = status]
                    ELSE [@ EXCEPT !.pc = "writing", !.target = target,
                                   !.role = UpdateRole(role, adm[a].userRole),
                                   !.loadedRole = users[target].role,
                                   !.isActive =
                                       UpdateIsActive(isActive, adm[a].userRole),
                                   !.loaded = users[target].isActive]]
    /\ UNCHANGED <<users, courses, videos, disk, req, del, pendingInc, proc,
                   enr, dl, files, pendingDl, deactivated, up, reg, accounts>>

\* The database applies user.save() of either handler: role and isActive
\* are sent when a value was assigned that differs from the one loaded. An
\* isActive that is no boolean fails validation, save() throws and the catch
\* block answers 500.
UserWrite(a) ==
    /\ proc = Up
    /\ adm[a].pc = "writing"
    /\ LET t == adm[a].target
           setsRole == adm[a].role # "" /\ adm[a].role # adm[a].loadedRole
           setsActive == /\ "bool" \in DOMAIN adm[a].isActive
                         /\ adm[a].isActive.bool # adm[a].loaded
       IN IF adm[a].isActive = NotBoolean
          THEN /\ users' = users
               /\ adm' = [adm EXCEPT ![a].pc = "done", ![a].status = 500]
          ELSE /\ users' = [users EXCEPT
                              ![t].role = IF setsRole THEN adm[a].role ELSE @,
                              ![t].isActive = IF setsActive
                                              THEN adm[a].isActive.bool ELSE @]
               /\ adm' = [adm EXCEPT ![a].pc = "done", ![a].status = 200]
    /\ UNCHANGED <<courses, videos, disk, req, del, pendingInc, proc,
                   enr, dl, files, pendingDl, deactivated, up, reg, accounts>>

(***************************************************************************)
(* DELETE, PUT and GET /api/courses/:id, GET /api/courses                  *)
(***************************************************************************)
\* DELETE /:id up to its save: Course.findById, 404 without a course, else
\* isActive = false is assigned on the document and course.save() issued.
CourseDeleteFind(a, id) ==
    /\ proc = Up
    /\ adm[a].pc = "handler"
    /\ adm[a].route = "courseDelete"
    /\ adm' = [adm EXCEPT ![a] =
                 IF FindCourse(courses, id) = NoCourse
                 THEN [@ EXCEPT !.pc = "done", !.target = id, !.status = 404]
                 ELSE [@ EXCEPT !.pc = "marking", !.target = id,
                                !.loaded = courses[id].isActive]]
    /\ UNCHANGED <<users, courses, videos, disk, req, del, pendingInc, proc,
                   enr, dl, files, pendingDl, deactivated, up, reg, accounts>>

\* The database applies course.save(), which sends isActive when the course
\* was loaded active, and the handler answers 200.
CourseDeleteSave(a) ==
    /\ proc = Up
    /\ adm[a].pc = "marking"
    /\ courses' = IF adm[a].loaded
                  THEN [courses EXCEPT ![adm[a].target].isActive = FALSE]
                  ELSE courses
    /\ adm' = [adm EXCEPT ![a].pc = "done", ![a].status = 200]
    /\ UNCHANGED <<users, videos, disk, req, del, pendingInc, proc,
                   enr, dl, files, pendingDl, deactivated, up, reg, accounts>>

\* PUT /:id: Course.findById, 404 without a course, else the descriptive
\* fields sent (title, description, category, level, thumbnail, price, tags,
\* requirements, whatYouWillLearn) are assigned and saved: none of the
\* fields kept here.
CourseUpdate(a, id) ==
    /\ proc = Up
    /\ adm[a].pc = "handler"
    /\ adm[a].route = "courseUpdate"
    /\ adm' = [adm EXCEPT ![a] =
                 [@ EXCEPT !.pc = "done", !.target = id,
                           !.status = IF FindCourse(courses, id) = NoCourse
                                      THEN 404 ELSE 200]]
    /\ UNCHANGED <<users, courses, videos, disk, req, del, pendingInc, proc,
                   enr, dl, files, pendingDl, deactivated, up, reg, accounts>>

\* Mutant: the list is not filtered.
ListedCoursesAll(cs) == DOMAIN cs

\* Course.find({ isActive: true }) without further filters.
ListedCourses(cs) == {c \in DOMAIN cs : cs[c].isActive}

\* GET /: the courses found are answered.
CourseList(a) ==
    /\ proc = Up
    /\ adm[a].pc = "handler"
    /\ adm[a].route = "courseList"
    /\ adm' = [adm EXCEPT ![a] =
                 [@ EXCEPT !.pc = "done", !.listed = ListedCourses(courses),
                           !.status = 200]]
    /\ UNCHANGED <<users, courses, videos, disk, req, del, pendingInc, proc,
                   enr, dl, files, pendingDl, deactivated, up, reg, accounts>>

\* What GET /:id answers.
CourseGetStatus(course) ==
    IF course = NoCourse \/ ~course.isActive THEN 404 ELSE 200

CourseGet(a, id) ==
    /\ proc = Up
    /\ adm[a].pc = "handler"
    /\ adm[a].route = "courseGet"
    /\ adm' = [adm EXCEPT ![a] =
                 [@ EXCEPT !.pc = "done", !.target = id,
                           !.status = CourseGetStatus(FindCourse(courses, id))]]
    /\ UNCHANGED <<users, courses, videos, disk, req, del, pendingInc, proc,
                   enr, dl, files, pendingDl, deactivated, up, reg, accounts>>

(***************************************************************************)
(* GET /api/files/download/:id                                             *)
(***************************************************************************)
FindFile(fs, id) == IF id \in DOMAIN fs THEN fs[id] ELSE NoFile

\* Mutant: the access check refuses nobody.
DownloadDeniedNever(isEnrolled, isAdmin) == FALSE

\* if (!isEnrolled && !isAdmin) of the download handler
DownloadDenied(isEnrolled, isAdmin) == ~isEnrolled /\ ~isAdmin

\* The Content-Type and Content-Length set from the record (the stored
\* fileSize, not the size on disk); Content-Disposition, made from the
\* record's originalName, is left out.
DownloadHead(file) ==
    [ContentLength |-> file.fileSize, ContentType |-> file.mimeType]

\* The handler from the result of File.findById(...).populate(...) on.
DownloadResponse(file, enrolled, user, role, d) ==
    IF file = NoFile THEN [status |-> 404, head |-> NoHead, streams |-> FALSE]
    ELSE IF ~file.isActive
         THEN [status |-> 404, head |-> NoHead, streams |-> FALSE]
    ELSE IF DownloadDenied(IsEnrolled(enrolled, user), role = "admin")
         THEN [status |-> 403, head |-> NoHead, streams |-> FALSE]
    ELSE IF ~ExistsSync(d, file.filePath)
         THEN [status |-> 404, head |-> NoHead, streams |-> FALSE]
    ELSE [status |-> 200, head |-> DownloadHead(file), streams |-> TRUE]

\* { $inc: { downloads: 1 } }
IncDownloads(downloads) == downloads + 1

\* authMiddleware
DlAuth(token) ==
    /\ proc = Up
    /\ dl.pc = "idle"
    /\ dl' = IF AuthStatus(token) = 0
             THEN [dl EXCEPT !.pc = "auth", !.user = token,
                             !.role = users[token].role]
             ELSE [dl EXCEPT !.pc = "done", !.status = AuthStatus(token)]
    /\ UNCHANGED <<users, courses, videos, disk, req, del, pendingInc, proc,
                   enr, adm, files, pendingDl, deactivated, up, reg, accounts>>

\* File.findById(req.params.id).populate('course', 'enrolledStudents') is
\* answered.
DlFind(id) ==
    /\ proc = Up
    /\ dl.pc = "auth"
    /\ LET file == FindFile(files, id)
       IN dl' = [dl EXCEPT !.pc = "found", !.id = id, !.file = file,
                           !.enrolled = IF file = NoFile THEN <<>>
                                        ELSE courses[file.course].enrolledStudents]
    /\ UNCHANGED <<users, courses, videos, disk, req, del, pendingInc, proc,
                   enr, adm, files, pendingDl, deactivated, up, reg, accounts>>

\* The rest of the handler: the checks, the headers, createReadStream and
\* pipe, and the dispatch of the downloads increment.
DlHandle ==
    /\ proc = Up
    /\ dl.pc = "found"
    /\ LET resp == DownloadResponse(dl.file, dl.enrolled, dl.user, dl.role, disk)
       IN /\ dl' = [dl EXCEPT !.pc = IF resp.streams THEN "streaming" ELSE "done",
                              !.status = resp.status, !.head = resp.head]
          /\ pendingDl' = IF resp.streams
                          THEN [pendingDl EXCEPT ![dl.id] = @ + 1]
                          ELSE pendingDl
    /\ UNCHANGED <<users, courses, videos, disk, req, del, pendingInc, proc,
                   enr, adm, files, deactivated, up, reg, accounts>>

\* The read stream opens the file; a failure is an 'error' event without a
\* listener, as in the stream route.
DlOpen ==
    /\ proc = Up
    /\ dl.pc = "streaming"
    /\ IF ~disk[dl.file.filePath].linked
       THEN /\ dl' = [dl EXCEPT !.pc = "ioerror"]
            /\ proc' = UncaughtException
       ELSE /\ dl' = [dl EXCEPT !.pc = "open", !.fd = dl.file.filePath]
            /\ proc' = proc
    /\ UNCHANGED <<users, courses, videos, disk, req, del, pendingInc,
                   enr, adm, files, pendingDl, deactivated, up, reg, accounts>>

\* One read of the stream, piped to the response, to the end of the file.
DlRead ==
    /\ proc = Up
    /\ dl.pc = "open"
    /\ LET data == disk[dl.fd].data
           chunk == ReadBytes(data, dl.pos, Infinity)
           pos == dl.pos + Len(chunk)
       IN dl' = IF chunk = <<>> \/ pos >= Len(data)
                THEN [dl EXCEPT !.pc = "done", !.fd = NoFd, !.pos = pos,
                                !.body = @ \o chunk]
                ELSE [dl EXCEPT !.pos = pos, !.body = @ \o chunk]
    /\ UNCHANGED <<users, courses, videos, disk, req, del, pendingInc, proc,
                   enr, adm, files, pendingDl, deactivated, up, reg, accounts>>

\* The database applies one dispatched findByIdAndUpdate(id, {$inc:
\* {downloads: 1}}).
ApplyDlInc(f) ==
    /\ pendingDl[f] > 0
    /\ pendingDl' = [pendingDl EXCEPT ![f] = @ - 1]
    /\ files' = [files EXCEPT ![f].downloads = IncDownloads(@)]
    /\ UNCHANGED <<users, courses, videos, disk, req, del, pendingInc, proc,
                   enr, adm, dl, deactivated, up, reg, accounts>>

\* deleteFile(filePath): unlink, a file already missing is tolerated.
DeleteFile(d, path) == [d EXCEPT ![path].linked = FALSE]

(***************************************************************************)
(* POST /api/videos/upload                                                 *)
(***************************************************************************)
\* The bytes of the video a client uploads.
UploadData == Content(1)

\* The title and courseId fields of the multipart body: '' when not sent.
Titles == {"", "t"}

\* authMiddleware and adminMiddleware, then uploadVideo.single('video'):
\* multer stores the file of the request, when it has one, under the upload
\* directory and sets req.file.
UpAuth(token, hasFile) ==
    /\ proc = Up
    /\ up.pc = "idle"
    /\ LET b == GuardStatus("videoUpload", token)
           v == CHOOSE id \in NewVideoIds : TRUE
       IN IF b # 0
          THEN /\ up' = [up EXCEPT !.pc = "done", !.token = token, !.status = b]
               /\ disk' = disk
          ELSE IF ~hasFile
          THEN /\ up' = [up EXCEPT !.pc = "received", !.token = token,
                                   !.user = token]
               /\ disk' = disk
          ELSE /\ up' = [up EXCEPT !.pc = "received", !.token = token,
                                   !.user = token, !.path = PathOf(v)]
               /\ disk' = [disk EXCEPT ![PathOf(v)] =
                              [linked |-> TRUE, data |-> UploadData]]
    /\ UNCHANGED <<users, courses, videos, req, del, pendingInc, proc,
                   enr, adm, dl, files, pendingDl, deactivated, reg, accounts>>

\* The handler up to its first await: 400 without a file; with title or
\* courseId missing it issues deleteFile and will answer 400; else it issues
\* Course.findById(courseId).
UpBegin(title, courseId) ==
    /\ proc = Up
    /\ up.pc = "received"
    /\ up' = IF up.path = None
             THEN [up EXCEPT !.pc = "done", !.status = 400]
             ELSE IF title = "" \/ courseId = ""
             THEN [up EXCEPT !.pc = "unlinking", !.status = 400]
             ELSE [up EXCEPT !.pc = "finding", !.courseId = courseId]
    /\ UNCHANGED <<users, courses, videos, disk, req, del, pendingInc, proc,
                   enr, adm, dl, files, pendingDl, deactivated, reg, accounts>>

\* Course.findById is answered (ok) or fails. No course: deleteFile is
\* issued and 404 will be answered. A course: the Video document is made
\* from getFileInfo(req.file) and video.save() is issued. A failure goes to
\* the catch block, which issues deleteFile and will answer 500.
UpFindCourse(ok) ==
    /\ proc = Up
    /\ up.pc = "finding"
    /\ up' = IF ~ok THEN [up EXCEPT !.pc = "unlinking", !.status = 500]
             ELSE IF FindCourse(courses, up.courseId) = NoCourse
             THEN [up EXCEPT !.pc = "unlinking", !.status = 404]
             ELSE [up EXCEPT !.pc = "saving",
                             !.id = CHOOSE id \in NewVideoIds : TRUE]
    /\ UNCHANGED <<users, courses, videos, disk, req, del, pendingInc, proc,
                   enr, adm, dl, files, pendingDl, deactivated, reg, accounts>>

\* video.save() is applied by the database (ok) or fails; after it the
\* handler issues Course.findByIdAndUpdate($addToSet videos).
UpSave(ok) ==
    /\ proc = Up
    /\ up.pc = "saving"
    /\ IF ok
       THEN /\ videos' = [videos EXCEPT ![up.id] =
                            [filePath |-> up.path,
                             fileSize |-> Len(disk[up.path].data),
                             mimeType |-> "video/mp4",
                             course |-> up.courseId, views |-> 0]]
            /\ up' = [up EXCEPT !.pc = "adding"]
       ELSE /\ videos' = videos
            /\ up' = [up EXCEPT !.pc = "unlinking", !.status = 500]
    /\ UNCHANGED <<users, courses, disk, req, del, pendingInc, proc,
                   enr, adm, dl, files, pendingDl, deactivated, reg, accounts>>

\* Course.findByIdAndUpdate is applied (ok), and the handler answers 201, or
\* fails, and the catch block issues deleteFile and will answer 500.
UpAdd(ok) ==
    /\ proc = Up
    /\ up.pc = "adding"
    /\ IF ok
       THEN /\ courses' = [courses EXCEPT ![up.courseId].videos = @ \cup {up.id}]
            /\ up' = [up EXCEPT !.pc = "done", !.status = 201]
       ELSE /\ courses' = courses
            /\ up' = [up EXCEPT !.pc = "unlinking", !.status = 500]
    /\ UNCHANGED <<users, videos, disk, req, del, pendingInc, proc,
                   enr, adm, dl, files, pendingDl, deactivated, reg, accounts>>

\* await deleteFile(req.file.path), then the answer that was pending.
UpUnlink ==
    /\ proc = Up
    /\ up.pc = "unlinking"
    /\ disk' = DeleteFile(disk, up.path)
    /\ up' = [up EXCEPT !.pc = "done"]
    /\ UNCHANGED <<users, courses, videos, req, del, pendingInc, proc,
                   enr, adm, dl, files, pendingDl, deactivated, reg, accounts>>

(***************************************************************************)
(* POST /api/auth/register                                                 *)
(***************************************************************************)
\* The e-mail addresses sent, as sequences of characters; <<>> is a body
\* without one.
Emails == {<<>>, <<"a">>, <<"A">>, <<"b">>}

\* String.prototype.toLowerCase on the characters used.
LowerChar(c) == IF c = "A" THEN "a" ELSE IF c = "B" THEN "b" ELSE c

ToLowerCase(s) == [i \in DOMAIN s |-> LowerChar(s[i])]

\* User.findOne({ email }): some stored user has the address.
FindOneEmail(acc, email) == \E i \in DOMAIN acc : acc[i] = email

\* The handler up to user.save(): 400 when a required field is missing or
\* the password is short (valid is false), 400 when User.findOne finds the
\* lower-cased address, else a User document with the lower-cased address
\* is made and its save issued.
RegFind(g, email, valid) ==
    /\ proc = Up
    /\ reg[g].pc = "idle"
    /\ reg' = [reg EXCEPT ![g] =
                 IF email = <<>> \/ ~valid
                 THEN [@ EXCEPT !.pc = "done", !.email = email, !.status = 400]
                 ELSE IF FindOneEmail(accounts, ToLowerCase(email))
                 THEN [@ EXCEPT !.pc = "done", !.email = email, !.status = 400]
                 ELSE [@ EXCEPT !.pc = "saving", !.email = ToLowerCase(email)]]
    /\ UNCHANGED <<users, courses, videos, disk, req, del, pendingInc, proc,
                   enr, adm, dl, files, pendingDl, deactivated, up, accounts>>

\* The database applies user.save(): the insert is refused by the unique
\* index on email when a stored user has the address (the catch block
\* answers 500), else the user is stored and 201 answered.
RegSave(g) ==
    /\ proc = Up
    /\ reg[g].pc = "saving"
    /\ IF FindOneEmail(accounts, reg[g].email)
       THEN /\ accounts' = accounts
            /\ reg' = [reg EXCEPT ![g].pc = "done", ![g].status = 500]
       ELSE /\ accounts' = Append(accounts, reg[g].email)
            /\ reg' = [reg EXCEPT ![g].pc = "done", ![g].status = 201]
    /\ UNCHANGED <<users, courses, videos, disk, req, del, pendingInc, proc,
                   enr, adm, dl, files, pendingDl, deactivated, up>>

(***************************************************************************)
(* DELETE /api/videos/:id                                                  *)
(***************************************************************************)
\* authMiddleware, then adminMiddleware.
DelAuth(token) ==
    /\ proc = Up
    /\ del.pc = "idle"
    /\ LET b == GuardStatus("videoDelete", token)
       IN del' = IF b = 0
                 THEN [del EXCEPT !.pc = "auth", !.token = token,
                                  !.user = token, !.role = users[token].role]
                 ELSE [del EXCEPT !.pc = "done", !.token = token,
                                  !.status = b]
    /\ UNCHANGED <<users, courses, videos, disk, req, pendingInc, proc,
                 enr, adm, dl, files, pendingDl, deactivated, up, reg, accounts>>

\* Video.findById(req.params.id); 404 when there is none, else the unlink is
\* issued.
DelFind(id) ==
    /\ proc = Up
    /\ del.pc = "auth"
    /\ LET video == FindById(videos, id)
       IN del' = IF video = NoVideo
                 THEN [del EXCEPT !.pc = "done", !.id = id, !.status = 404]
                 ELSE [del EXCEPT !.pc = "found", !.id = id, !.video = video]
    /\ UNCHANGED <<users, courses, videos, disk, req, pendingInc, proc,
                 enr, adm, dl, files, pendingDl, deactivated, up, reg, accounts>>

\* await deleteFile(video.filePath)
DelUnlink ==
    /\ proc = Up
    /\ del.pc = "found"
    /\ disk' = DeleteFile(disk, del.video.filePath)
    /\ del' = [del EXCEPT !.pc = "unlinked"]
    /\ UNCHANGED <<users, courses, videos, req, pendingInc, proc,
                 enr, adm, dl, files, pendingDl, deactivated, up, reg, accounts>>

\* deleteFile(video.filePath) rejects (unlink fails with an error other than
\* ENOENT): the inner catch logs a warning and the handler goes on.
DelUnlinkFails ==
    /\ proc = Up
    /\ del.pc = "found"
    /\ del' = [del EXCEPT !.pc = "unlinked"]
    /\ UNCHANGED <<users, courses, videos, disk, req, pendingInc, proc,
                 enr, adm, dl, files, pendingDl, deactivated, up, reg, accounts>>

\* await Video.findByIdAndDelete(req.params.id)
DelRemove ==
    /\ proc = Up
    /\ del.pc = "unlinked"
    /\ videos' = [videos EXCEPT ![del.id] = NoVideo]
    /\ del' = [del EXCEPT !.pc = "removed"]
    /\ UNCHANGED <<users, courses, disk, req, pendingInc, proc,
                 enr, adm, dl, files, pendingDl, deactivated, up, reg, accounts>>

\* await Course.findByIdAndUpdate(video.course, {$pull: {videos: video._id}}),
\* then res.json.
DelPull ==
    /\ proc = Up
    /\ del.pc = "removed"
    /\ courses' = [courses EXCEPT ![del.video.course].videos = @ \ {del.id}]
    /\ del' = [del EXCEPT !.pc = "done", !.status = 200]
    /\ UNCHANGED <<users, videos, disk, req, pendingInc, proc,
                 enr, adm, dl, files, pendingDl, deactivated, up, reg, accounts>>

(***************************************************************************)
(* GET /api/videos/:id                                                     *)
(***************************************************************************)
\* What the handler answers: 404 without a record, 403 to a requester who is
\* neither enrolled in the video's course nor admin, else the video (200).
VideoGetStatus(video, enrolled, user, role) ==
    IF video = NoVideo THEN 404
    ELSE IF ~IsEnrolled(enrolled, user) /\ role # "admin" THEN 403
    ELSE 200

\* The handler: Video.findById(id).populate('course'), then the answer.
VideoGet(a, id) ==
    /\ proc = Up
    /\ adm[a].pc = "handler"
    /\ adm[a].route = "videoGet"
    /\ LET video == FindById(videos, id)
           enrolled == IF video = NoVideo THEN <<>>
                       ELSE courses[video.course].enrolledStudents
       IN adm' = [adm EXCEPT ![a] =
                    [@ EXCEPT !.pc = "done", !.target = id,
                              !.status = VideoGetStatus(video, enrolled,
                                             adm[a].user, adm[a].userRole)]]
    /\ UNCHANGED <<users, courses, videos, disk, req, del, pendingInc, proc,
                 enr, dl, files, pendingDl, deactivated, up, reg, accounts>>

\* Concurrent stream requests, each with one of a few Range headers, beside
\* the deletion of the video.
Next ==
    \/ \E r \in Reqs, token \in Tokens : StreamAuth(r, token)
    \/ \E r \in Reqs, id \in RequestIds : StreamFind(r, id)
    \/ \E r \in Reqs, range \in FewHeaders : StreamHandle(r, range)
    \/ \E r \in Reqs : StreamOpen(r)
    \/ \E r \in Reqs : StreamRead(r)
    \/ \E v \in VideoIds : ApplyInc(v)
    \/ \E token \in Tokens : DelAuth(token)
    \/ \E id \in RequestIds : DelFind(id)
    \/ DelUnlink
    \/ DelRemove
    \/ DelPull

Spec == Init /\ [][Next]_vars

\* One stream request with any of the Range headers, beside the deletion of
\* the video.
NextRange ==
    \/ \E token \in Tokens : StreamAuth("r1", token)
    \/ \E id \in RequestIds : StreamFind("r1", id)
    \/ \E range \in RangeHeaders : StreamHandle("r1", range)
    \/ StreamOpen("r1")
    \/ StreamRead("r1")
    \/ \E v \in VideoIds : ApplyInc(v)
    \/ \E token \in Tokens : DelAuth(token)
    \/ \E id \in RequestIds : DelFind(id)
    \/ DelUnlink
    \/ DelRemove
    \/ DelPull

SpecRange == Init /\ [][NextRange]_vars

\* Two concurrent stream requests of users with access, for ranges inside the
\* file, their reads interleaved; no deletion.
NextPair ==
    \/ \E r \in Reqs, token \in {"s1", "a1"} : StreamAuth(r, token)
    \/ \E r \in Reqs, id \in VideoIds : StreamFind(r, id)
    \/ \E r \in Reqs, range \in PairHeaders : StreamHandle(r, range)
    \/ \E r \in Reqs : StreamOpen(r)
    \/ \E r \in Reqs : StreamRead(r)
    \/ \E v \in VideoIds : ApplyInc(v)

SpecPair == Init /\ [][NextPair]_vars

\* One stream request beside two enrollment requests.
NextEnroll ==
    \/ \E token \in Users : StreamAuth("r1", token)
    \/ \E id \in VideoIds : StreamFind("r1", id)
    \/ StreamHandle("r1", NoRange)
    \/ StreamOpen("r1")
    \/ StreamRead("r1")
    \/ \E v \in VideoIds : ApplyInc(v)
    \/ \E e \in Enrs, method \in {"POST", "DELETE"}, token \in Tokens :
          EnrAuth(e, method, token)
    \/ \E e \in Enrs, id \in CourseIds : EnrFind(e, id)
    \/ \E e \in Enrs : EnrSave(e)
    \/ \E e \in Enrs : EnrUser(e)

SpecEnroll == Init /\ [][NextEnroll]_vars

\* Two requests that change a user's status beside an enrollment request.
NextUsers ==
    \/ \E a \in Adms, route \in {"userStatus", "userDelete"}, token \in Tokens :
          AdmAuth(a, route, token)
    \/ \E a \in Adms, target \in UserIds,
          value \in {Bool(TRUE), Bool(FALSE), NotBoolean} :
          UserFind(a, target, value)
    \/ \E a \in Adms : UserSave(a)
    \/ \E method \in {"POST", "DELETE"}, token \in Tokens :
          EnrAuth("e1", method, token)
    \/ \E id \in CourseIds : EnrFind("e1", id)
    \/ EnrSave("e1")
    \/ EnrUser("e1")

SpecUsers == Init /\ [][NextUsers]_vars

\* The tokens of the user-management requests: an admin's and a student's.
RoleTokens == {"a1", "s1"}

RoleTargets == {"a1", "s1", "u0"}

\* Two user-management requests: role, update, status, delete.
NextRoles ==
    \/ \E a \in Adms, token \in RoleTokens,
          route \in {"userRole", "userUpdate", "userStatus", "userDelete"} :
          AdmAuth(a, route, token)
    \/ \E a \in Adms, target \in RoleTargets, role \in RoleValues :
          RoleFind(a, target, role)
    \/ \E a \in Adms, target \in RoleTargets, role \in RoleValues,
          isActive \in {Undefined, Bool(TRUE), Bool(FALSE), NotBoolean} :
          UpdateFind(a, target, role, isActive)
    \/ \E a \in Adms : UserWrite(a)
    \/ \E a \in Adms, target \in RoleTargets,
          value \in {Bool(TRUE), Bool(FALSE), NotBoolean} :
          UserFind(a, target, value)
    \/ \E a \in Adms : UserSave(a)

SpecRoles == Init /\ [][NextRoles]_vars

\* One upload, with database calls that may fail.
NextUpload ==
    \/ \E token \in Tokens, hasFile \in BOOLEAN : UpAuth(token, hasFile)
    \/ \E title \in Titles, courseId \in CourseIds \cup {""} :
          UpBegin(title, courseId)
    \/ \E ok \in BOOLEAN : UpFindCourse(ok)
    \/ \E ok \in BOOLEAN : UpSave(ok)
    \/ \E ok \in BOOLEAN : UpAdd(ok)
    \/ UpUnlink

SpecUpload == Init /\ [][NextUpload]_vars

\* The deletion of a video, whose unlink may fail, beside an upload and the
\* requests for a video up to their answer.
NextDelete ==
    \/ \E token \in Tokens : DelAuth(token)
    \/ \E id \in RequestIds \cup NewVideoIds : DelFind(id)
    \/ DelUnlink
    \/ DelUnlinkFails
    \/ DelRemove
    \/ DelPull
    \/ \E token \in {"a1", "s1"} : StreamAuth("r1", token)
    \/ \E id \in VideoIds \cup NewVideoIds : StreamFind("r1", id)
    \/ StreamHandle("r1", NoRange)
    \/ \E token \in {"a1", "s1"} : AdmAuth("m1", "videoGet", token)
    \/ \E id \in VideoIds \cup NewVideoIds : VideoGet("m1", id)
    \/ UpAuth("a1", TRUE)
    \/ UpBegin("t", "c1")
    \/ UpFindCourse(TRUE)
    \/ UpSave(TRUE)
    \/ UpAdd(TRUE)

SpecDelete == Init /\ [][NextDelete]_vars

\* Two concurrent registrations.
NextRegister ==
    \/ \E g \in Regs, email \in Emails, valid \in BOOLEAN : RegFind(g, email, valid)
    \/ \E g \in Regs : RegSave(g)

SpecRegister == Init /\ [][NextRegister]_vars

\* The soft deletion of a course beside the requests that read it and an
\* enrollment request.
NextCourses ==
    \/ \E route \in {"courseDelete", "courseUpdate"}, token \in {"a1", "s1"} :
          AdmAuth("m1", route, token)
    \/ \E route \in {"courseList", "courseGet"}, token \in {NoToken, "s1"} :
          AdmAuth("m2", route, token)
    \/ \E id \in CourseIds : CourseDeleteFind("m1", id)
    \/ CourseDeleteSave("m1")
    \/ \E id \in CourseIds : CourseUpdate("m1", id)
    \/ CourseList("m2")
    \/ \E id \in CourseIds : CourseGet("m2", id)
    \/ \E method \in {"POST", "DELETE"}, token \in {"s1", "s2"} :
          EnrAuth("e1", method, token)
    \/ \E id \in CourseIds : EnrFind("e1", id)
    \/ EnrSave("e1")
    \/ EnrUser("e1")

SpecCourses == Init /\ [][NextCourses]_vars

\* Two concurrent enrollment requests, with a database that may fail between
\* the two writes of a handler.
NextConsistency ==
    \/ \E e \in Enrs, method \in {"POST", "DELETE"}, token \in Tokens :
          EnrAuth(e, method, token)
    \/ \E e \in Enrs, id \in CourseIds : EnrFind(e, id)
    \/ \E e \in Enrs : EnrSave(e)
    \/ \E e \in Enrs : EnrUser(e)
    \/ \E e \in Enrs : EnrUserFails(e)

SpecConsistency == Init /\ [][NextConsistency]_vars

\* One request to any of the guarded routes beside the deletion of a video.
NextAdmin ==
    \/ \E route \in AdminGuarded \cup AuthGuarded, token \in Tokens :
          AdmAuth("m1", route, token)
    \/ \E target \in UserIds, value \in {Bool(TRUE), Bool(FALSE), NotBoolean} :
          UserFind("m1", target, value)
    \/ UserSave("m1")
    \/ \E token \in Tokens : DelAuth(token)
    \/ \E id \in RequestIds : DelFind(id)
    \/ DelUnlink
    \/ DelRemove
    \/ DelPull

SpecAdmin == Init /\ [][NextAdmin]_vars

\* One download request beside an enrollment request.
NextFiles ==
    \/ \E token \in Tokens : DlAuth(token)
    \/ \E id \in FileIds \cup {"f0"} : DlFind(id)
    \/ DlHandle
    \/ DlOpen
    \/ DlRead
    \/ \E f \in FileIds : ApplyDlInc(f)
    \/ \E method \in {"POST", "DELETE"}, token \in Tokens :
          EnrAuth("e1", method, token)
    \/ \E id \in CourseIds : EnrFind("e1", id)
    \/ EnrSave("e1")
    \/ EnrUser("e1")

SpecFiles == Init /\ [][NextFiles]_vars

\* One stream request beside the deletion of the video, a database that may
\* reject the views increment and a client that may disconnect.
NextFault ==
    \/ NextRange
    \/ \E v \in VideoIds : IncFail(v)
    \/ ClientClose("r1")

SpecFault == Init /\ [][NextFault]_vars

(***************************************************************************)
(* Properties                                                              *)
(***************************************************************************)
\* The handler of slot r has answered (authMiddleware let the request pass).
Handled(r) == req[r].status \notin {0, 401}

\* The requester of slot r passes the handler's access check.
Authorized(r) ==
    IsEnrolled(req[r].enrolled, req[r].user) \/ req[r].role = "admin"

\* A request for an existing video by a requester with access to it.
Served(r) == Handled(r) /\ req[r].video # NoVideo /\ Authorized(r)

FileOf(r) == disk[req[r].video.filePath]

\* The on-disk length of the requested video's file.
FileLen(r) == Len(FileOf(r).data)

HdrOf(st, en) == [text |-> Hdr(ToStr(st), ToStr(en))]

HdrFrom(st) == [text |-> Hdr(ToStr(st), <<>>)]

\* 'bytes */<length>'
StarRange(n) == BytesSp \o <<"*", "/">> \o ToStr(n)

\* C1: without a Range header, a file of length L is answered 200 with
\* Content-Length L (the length on disk), Content-Type the video's mimeType,
\* and the body streamed is the whole file.
C1_FullResponse ==
    \A r \in Reqs :
        (Served(r) /\ req[r].range = NoRange) =>
            /\ FileOf(r).linked => req[r].status = 200
            /\ req[r].status \in {200, 404}
            /\ req[r].status = 200 =>
                  /\ req[r].head = [ContentLength |-> FileLen(r),
                                    ContentType |-> req[r].video.mimeType]
                  /\ req[r].pc = "done" => req[r].body = FileOf(r).data

C1_Witness ==
    \E r \in Reqs :
        /\ Served(r) /\ req[r].range = NoRange
        /\ req[r].status = 200 /\ req[r].pc = "done"
        /\ Len(req[r].body) = MaxLen

\* C2: a Range header bytes=s-e with 0 <= s <= e <= L-1 is answered 206 with
\* Content-Range 'bytes s-e/L', Accept-Ranges 'bytes', Content-Length e-s+1,
\* and exactly the bytes at offsets s..e are streamed.
C2_PartialResponse ==
    \A r \in Reqs : \A st \in Offsets, en \in Offsets :
        (Served(r) /\ req[r].range = HdrOf(st, en)
            /\ st <= en /\ en <= FileLen(r) - 1) =>
            /\ FileOf(r).linked => req[r].status = 206
            /\ req[r].status \in {206, 404}
            /\ req[r].status = 206 =>
                  /\ req[r].head =
                        [ContentRange |-> ContentRange(st, en, FileLen(r)),
                         AcceptRanges |-> "bytes",
                         ContentLength |-> en - st + 1,
                         ContentType |-> req[r].video.mimeType]
                  /\ req[r].pc = "done" =>
                        req[r].body = [i \in 1..(en - st + 1) |->
                                          FileOf(r).data[st + i]]

C2_Witness ==
    \E r \in Reqs :
        /\ Served(r) /\ req[r].range = HdrOf(1, 1)
        /\ FileLen(r) = 2
        /\ req[r].status = 206 /\ req[r].pc = "done"
        /\ req[r].body = <<1>>

\* C3: a Range header whose start is >= L is answered 416 with Content-Range
\* 'bytes */L' and no file bytes.
C3_StartBeyondEnd416 ==
    \A r \in Reqs : \A st \in Offsets, en \in Offsets :
        (Served(r) /\ req[r].range = HdrOf(st, en) /\ FileOf(r).linked
            /\ st >= FileLen(r) /\ st <= en) =>
            /\ req[r].status = 416
            /\ req[r].head.ContentRange = StarRange(FileLen(r))
            /\ req[r].body = <<>>

\* C4: a Range header bytes=s-e with s < L and e > L-1 is answered 206 with
\* the end clamped: Content-Range 'bytes s-(L-1)/L', Content-Length L-s.
C4_EndClamped ==
    \A r \in Reqs : \A st \in Offsets, en \in Offsets :
        (Served(r) /\ req[r].range = HdrOf(st, en) /\ FileOf(r).linked
            /\ st < FileLen(r) /\ en > FileLen(r) - 1) =>
            /\ req[r].status = 206
            /\ req[r].head.ContentRange =
                  ContentRange(st, FileLen(r) - 1, FileLen(r))
            /\ req[r].head.ContentLength = FileLen(r) - st

\* C5: a Range header bytes=s- with 0 <= s < L is answered 206 with
\* Content-Range 'bytes s-(L-1)/L', Content-Length L-s, and the body is the
\* file from offset s through its end.
C5_OpenEnded ==
    \A r \in Reqs : \A st \in Offsets :
        (Served(r) /\ req[r].range = HdrFrom(st) /\ st < FileLen(r)) =>
            /\ FileOf(r).linked => req[r].status = 206
            /\ req[r].status \in {206, 404}
            /\ req[r].status = 206 =>
                  /\ req[r].head.ContentRange =
                        ContentRange(st, FileLen(r) - 1, FileLen(r))
                  /\ req[r].head.ContentLength = FileLen(r) - st
                  /\ req[r].pc = "done" =>
                        req[r].body = [i \in 1..(FileLen(r) - st) |->
                                          FileOf(r).data[st + i]]

C5_Witness ==
    \E r \in Reqs :
        /\ Served(r) /\ req[r].range = HdrFrom(1)
        /\ FileLen(r) = 2
        /\ req[r].status = 206 /\ req[r].pc = "done"
        /\ req[r].body = <<1>>

\* The start and end a Range header is parsed to (the claims' reading of it).
StartOf(r) == RangeStart(req[r].range)

EndOf(r) == RangeEnd(req[r].range, FileLen(r))

\* C6: a Range header whose start does not parse as a non-negative integer,
\* or whose start is greater than its end, is answered 416 with Content-Range
\* 'bytes */<length>', never 206 and never 500.
C6_BadStart416 ==
    \A r \in Reqs :
        (Served(r) /\ Truthy(req[r].range) /\ FileOf(r).linked
            /\ \/ ~ValidInteger(StartOf(r))
               \/ (ValidInteger(EndOf(r)) /\ StartOf(r).num > EndOf(r).num)) =>
            /\ req[r].status = 416
            /\ req[r].head.ContentRange = StarRange(FileLen(r))

\* C7: for a zero-length file, every request with a Range header is answered
\* 416.
C7_EmptyFile416 ==
    \A r \in Reqs :
        (Served(r) /\ Truthy(req[r].range) /\ FileOf(r).linked
            /\ FileLen(r) = 0) =>
            req[r].status = 416

\* C8: in every 206 response the start and end of Content-Range satisfy
\* 0 <= start <= end <= L-1 and Content-Length is end - start + 1.
C8_RangeWithinFile ==
    \A r \in Reqs :
        req[r].status = 206 =>
            \E st \in Offsets, en \in Offsets :
                /\ req[r].head.ContentRange = ContentRange(st, en, FileLen(r))
                /\ st <= en /\ en <= FileLen(r) - 1
                /\ req[r].head.ContentLength = en - st + 1

\* The step in which the handler of slot r answers.
HandleStep(r) == req[r].pc = "found" /\ req'[r].pc # "found"

\* The answer of that step is 404, the response is over and nothing was or
\* will be streamed for it (no read stream, no views increment).
Answers404(r) ==
    /\ req'[r].status = 404
    /\ req'[r].pc = "done"
    /\ req'[r].body = <<>>
    /\ pendingInc' = pendingInc

Started(v) ==
    {r \in Reqs : req[r].status \in {200, 206} /\ req[r].id = v}

\* C10: each stream request that starts a 200 or 206 response adds exactly 1
\* to the video's views: under every interleaving the counter (0 at first) is
\* the number of responses started less the increments not yet applied.
C10_ViewsCountStarts ==
    \A v \in VideoIds :
        videos[v] # NoVideo =>
            videos[v].views + pendingInc[v] = Cardinality(Started(v))

C10_Witness ==
    \E v \in VideoIds :
        /\ videos[v] # NoVideo
        /\ videos[v].views = 2 /\ pendingInc[v] = 0
        /\ req["r1"].status = 200 /\ req["r2"].status = 206
        /\ req["r1"].id = v /\ req["r2"].id = v

\* A response of slot r was started (200 or 206) and is not over.
Streaming(r) ==
    req[r].status \in {200, 206} /\ req[r].pc \in {"streaming", "open"}

\* C11: the views increment is not awaited, and its failure never alters or
\* aborts the 200/206 response already started nor reaches the request path:
\* no response that is being streamed is cut off by a rejected increment.
C11_IncrementFailureHarmless ==
    \A r \in Reqs : Streaming(r) => proc # UnhandledRejection

\* C12: a read failure after the 200/206 headers were written (the file was
\* deleted meanwhile) aborts that response only, writes no second status or
\* headers, and stays confined to that request: the other requests go on.
C12_ReadFailureConfined ==
    \A r \in Reqs :
        req[r].pc = "ioerror" =>
            /\ req[r].status \in {200, 206}
            /\ \A o \in Reqs \ {r} :
                  req[o].pc \in {"auth", "found", "streaming", "open"} =>
                      proc = Up

\* A step of the server that closes the file handle of slot r.
Release(r) == NextFault /\ req[r].fd # NoFd /\ req'[r].fd = NoFd

\* C13: after the client has disconnected from a response that is being
\* streamed, the server stops reading and releases the read handle it opened:
\* a handle held for a closed connection is one the server still has a step
\* to close.
C13_HandleReleasedAfterClose ==
    \A r \in Reqs :
        (proc = Up /\ req[r].closed /\ req[r].fd # NoFd) => ENABLED Release(r)

\* C14: two range requests whose ranges are contiguous, do not overlap and
\* together cover [0, L-1] (the second closed, bytes=k-(L-1), or open-ended,
\* bytes=k-) are both answered 206, their bodies concatenated in range order
\* are the file, and their Content-Length values add up to L.
C14_RangesReassemble ==
    \A a \in Reqs, b \in Reqs : \A k \in 1..MaxLen :
        (/\ a # b /\ Served(a) /\ Served(b)
         /\ k <= FileLen(a) - 1
         /\ req[a].range = HdrOf(0, k - 1)
         /\ req[b].range \in {HdrOf(k, FileLen(a) - 1), HdrFrom(k)}) =>
            /\ req[a].status = 206 /\ req[b].status = 206
            /\ req[a].head.ContentLength + req[b].head.ContentLength = FileLen(a)
            /\ (req[a].pc = "done" /\ req[b].pc = "done") =>
                  req[a].body \o req[b].body = FileOf(a).data

C14_Witness ==
    /\ req["r1"].range = HdrFrom(1) /\ req["r2"].range = HdrOf(0, 0)
    /\ FileLen("r1") = 3
    /\ req["r1"].pc = "done" /\ req["r2"].pc = "done"
    /\ req["r2"].body \o req["r1"].body = <<0, 1, 2>>

\* The bytes of the file from offset first up to, not including, offset pos.
Slice(data, first, pos) == [i \in 1..(pos - first) |-> data[first + i]]

\* C15: concurrent stream requests for sub-ranges of one file each receive
\* exactly the bytes of their own range under every interleaving of their
\* reads: at every moment the body sent so far is the file from the request's
\* own start to its own read position, and a finished body is the whole range.
C15_ConcurrentRangesIndependent ==
    \A r \in Reqs : \A st \in 0..(MaxLen - 1), en \in 0..(MaxLen - 1) :
        (Served(r) /\ req[r].range = HdrOf(st, en)
            /\ st <= en /\ en <= FileLen(r) - 1) =>
            /\ req[r].status = 206
            /\ req[r].pos \in st..(en + 1)
            /\ req[r].body = Slice(FileOf(r).data, st, req[r].pos)
            /\ req[r].pc = "done" => req[r].pos = en + 1

C15_Witness ==
    /\ req["r1"].range = HdrOf(0, 1) /\ req["r2"].range = HdrOf(1, 2)
    /\ req["r1"].pc = "open" /\ req["r2"].pc = "open"
    /\ FileLen("r1") = 3
    /\ req["r1"].body = <<0>> /\ req["r2"].body = <<1>>

\* C16: views changes only in stream requests whose response was started
\* with 200 or 206: an increment is dispatched only by a handler step that
\* starts such a response, a stored counter changes only by one dispatched
\* increment being applied, and a request answered 401, 403, 404, 416 or 500
\* dispatches nothing and leaves the video records as they are.
C16_ViewsOnlyOnStart ==
    [][/\ \A v \in VideoIds :
            /\ pendingInc'[v] > pendingInc[v] =>
                  /\ pendingInc'[v] = pendingInc[v] + 1
                  /\ \E r \in Reqs :
                        /\ HandleStep(r) /\ req[r].id = v
                        /\ req'[r].status \in {200, 206}
            /\ (videos[v] # NoVideo /\ videos'[v] # NoVideo
                  /\ videos'[v].views # videos[v].views) =>
                  /\ pendingInc[v] > 0
                  /\ pendingInc'[v] = pendingInc[v] - 1
                  /\ videos'[v].views = videos[v].views + 1
       /\ \A r \in Reqs :
            (req'[r] # req[r] /\ req'[r].status \in {401, 403, 404, 416, 500}) =>
                pendingInc' = pendingInc /\ videos' = videos]_vars

C16_Witness ==
    \E r \in Reqs, o \in Reqs :
        /\ req[r].status = 403 /\ req[o].status = 206
        /\ req[r].id = "v1" /\ req[o].id = "v1"
        /\ videos["v1"] # NoVideo
        /\ videos["v1"].views = 1 /\ pendingInc["v1"] = 0

\* The step of slot r in which the populate query of its handler is answered.
FindStep(r) == req[r].pc = "auth" /\ req'[r].pc = "found"

\* A handler step that starts a response only for a requester with access,
\* and answers any other requester of an existing video 403, sending nothing
\* and counting no view.
AccessChecked(r) ==
    HandleStep(r) =>
        /\ req'[r].status \in {200, 206} => Authorized(r)
        /\ (req[r].video # NoVideo /\ ~Authorized(r)) =>
              /\ req'[r].status = 403 /\ req'[r].pc = "done"
              /\ req'[r].body = <<>> /\ pendingInc' = pendingInc

\* C17 as stated: bytes go only to a requester who is enrolled in the video's
\* course or an admin, anyone else gets 403 and no bytes, and a stream request
\* a student makes after their DELETE /api/courses/:id/enroll was answered is
\* refused.
C17_RefusedAfterUnenroll ==
    [][\A r \in Reqs :
          /\ AccessChecked(r)
          /\ (HandleStep(r) /\ req[r].video # NoVideo
                /\ req[r].role # "admin"
                /\ req[r].video.course \in req[r].left) =>
                req'[r].status = 403]_vars

\* C17, amended: the enrolledStudents the check uses are those stored when
\* the request's populate query is answered and the role is the one
\* authMiddleware loaded; a requester who by these is enrolled or an admin
\* may get bytes, anyone else gets 403 and no bytes. A request a student
\* makes after their DELETE .../enroll was answered is refused when the
\* student is not in enrolledStudents as read by that request (a POST
\* .../enroll by the student, later or overlapping, gives access back).
C17_AccessByEnrollment ==
    [][\A r \in Reqs :
          /\ AccessChecked(r)
          /\ FindStep(r) =>
                /\ req[r].role = users[req[r].user].role
                /\ req'[r].video # NoVideo =>
                      req'[r].enrolled =
                          courses[req'[r].video.course].enrolledStudents
          /\ (HandleStep(r) /\ req[r].video # NoVideo
                /\ req[r].role # "admin"
                /\ req[r].video.course \in req[r].left
                /\ ~IsEnrolled(req[r].enrolled, req[r].user)) =>
                req'[r].status = 403]_vars

C17_Witness ==
    \E r \in Reqs :
        /\ req[r].user = "s1" /\ "c1" \in req[r].left
        /\ req[r].status = 403 /\ req[r].pc = "done" /\ req[r].body = <<>>
        /\ ~IsEnrolled(courses["c1"].enrolledStudents, "s1")

\* What the routes store: the records and the files on disk.
Stored == <<users, courses, videos, files, disk>>

\* The user a token was issued to is stored and active.
ActiveUser(token) == token \in DOMAIN users /\ users[token].isActive

\* A request enters slot e of the enroll routes / slot a of the other routes.
EnrArrives(e) == enr[e].pc = "idle" /\ enr'[e].pc # "idle"

AdmArrives(a) == adm[a].pc = "idle" /\ adm'[a].pc # "idle"

\* The request entering is answered 401 and nothing stored changes.
Enr401(e) ==
    enr'[e].status = 401 /\ enr'[e].pc = "done" /\ Stored' = Stored

Adm401(a) ==
    adm'[a].status = 401 /\ adm'[a].pc = "done" /\ Stored' = Stored

\* C18 as stated: a request gets past authMiddleware only with a token of a
\* stored user who is active at that moment, and once a user was deactivated
\* or soft-deleted every later request with that user's token is answered 401
\* and changes nothing stored.
C18_DeactivatedForGood ==
    [][/\ \A e \in Enrs : EnrArrives(e) =>
            /\ enr'[e].pc # "done" => ActiveUser(enr'[e].token)
            /\ enr'[e].token \in deactivated => Enr401(e)
       /\ \A a \in Adms : AdmArrives(a) =>
            /\ adm'[a].pc # "done" => ActiveUser(adm'[a].token)
            /\ adm'[a].token \in deactivated => Adm401(a)]_vars

\* C18, amended: a request gets past authMiddleware only with a token of a
\* stored user who is active at that moment; a request with the token of a
\* user who was deactivated or soft-deleted is answered 401 and changes
\* nothing stored for as long as the user's isActive is still false (PUT
\* /api/users/:id/status with isActive true makes the old tokens work again).
C18_InactiveUnauthorized ==
    [][/\ \A e \in Enrs : EnrArrives(e) =>
            /\ enr'[e].pc # "done" => ActiveUser(enr'[e].token)
            /\ ~ActiveUser(enr'[e].token) => Enr401(e)
       /\ \A a \in Adms : AdmArrives(a) =>
            /\ adm'[a].pc # "done" => ActiveUser(adm'[a].token)
            /\ ~ActiveUser(adm'[a].token) => Adm401(a)
       /\ \A e \in Enrs : enr[e].pc = "done" => enr'[e] = enr[e]
       /\ \A a \in Adms : adm[a].pc = "done" => adm'[a] = adm[a]]_vars

C18_Witness ==
    /\ "s1" \in deactivated /\ ~users["s1"].isActive
    /\ enr["e1"].token = "s1" /\ enr["e1"].method = "DELETE"
    /\ enr["e1"].status = 401 /\ enr["e1"].pc = "done"
    /\ IsEnrolled(courses["c1"].enrolledStudents, "s1")

\* The routes C19 names as admin-only.
ClaimedAdminRoutes ==
    {"videoUpload", "videoUpdate", "videoDelete",
     "courseCreate", "courseUpdate", "courseDelete",
     "fileUpload", "fileUpdate", "fileDelete",
     "userList", "userRole", "userStatus", "userDelete", "userStats"}

\* The token is that of an authenticated user whose role is not 'admin'.
NonAdmin(token) == ActiveUser(token) /\ users[token].role # "admin"

\* C19: a request to an admin-only route by an authenticated user whose role
\* is not 'admin' is answered 403 by adminMiddleware, before the handler, and
\* the stored users, courses, videos and files stay as they are, then and
\* afterwards.
C19_AdminRoutesRefuseOthers ==
    [][/\ \A a \in Adms :
            (AdmArrives(a) /\ adm'[a].route \in ClaimedAdminRoutes
               /\ NonAdmin(adm'[a].token)) =>
               /\ adm'[a].status = 403 /\ adm'[a].pc = "done"
               /\ Stored' = Stored
       /\ (del.pc = "idle" /\ del'.pc # "idle" /\ NonAdmin(del'.token)) =>
               /\ del'.status = 403 /\ del'.pc = "done"
               /\ Stored' = Stored
       /\ \A a \in Adms : adm[a].pc = "done" => adm'[a] = adm[a]
       /\ del.pc = "done" => del' = del]_vars

C19_Witness ==
    /\ adm["m1"].route = "userStatus" /\ adm["m1"].token = "s1"
    /\ adm["m1"].status = 403 /\ adm["m1"].pc = "done"
    /\ del.token = "s2" /\ del.status = 403 /\ del.pc = "done"
    /\ users["a1"].isActive /\ videos["v1"] # NoVideo

\* The requester of the download passes the handler's access check.
DlAuthorized == IsEnrolled(dl.enrolled, dl.user) \/ dl.role = "admin"

\* C20: the download handler streams a file only to a requester who is
\* enrolled in the file's course, as stored when the handler's query reads
\* it, or is an admin; any other authenticated requester of a file is
\* answered 403, gets no bytes, and the downloads counter is left alone, at
\* that step and for the rest of the request.
C20_DownloadByEnrollment ==
    [][/\ (dl.pc = "auth" /\ dl'.pc = "found" /\ dl'.file # NoFile) =>
            dl'.enrolled = courses[dl'.file.course].enrolledStudents
       /\ (dl.pc = "found" /\ dl'.pc # "found") =>
            /\ dl'.status = 200 => DlAuthorized
            /\ (dl.file # NoFile /\ ~DlAuthorized) =>
                  /\ dl'.status = 403 /\ dl'.pc = "done"
                  /\ dl'.body = <<>>
                  /\ pendingDl' = pendingDl /\ files' = files
       /\ dl'.body # dl.body => dl.status = 200
       /\ dl.pc = "done" => dl' = dl
       /\ \A f \in FileIds :
            /\ pendingDl'[f] > pendingDl[f] =>
                  dl.pc = "found" /\ dl.id = f /\ dl'.status = 200
            /\ files'[f].downloads # files[f].downloads =>
                  pendingDl[f] > 0 /\ pendingDl'[f] = pendingDl[f] - 1]_vars

C20_Witness ==
    /\ dl.user = "s1" /\ dl.id = "f1"
    /\ dl.status = 403 /\ dl.pc = "done" /\ dl.body = <<>>
    /\ enr["e1"].user = "s1" /\ enr["e1"].method = "DELETE"
    /\ enr["e1"].status = 200
    /\ files["f1"].downloads = 0 /\ pendingDl["f1"] = 0

\* Slot a of the guarded routes takes a step.
AdmActs(a) == adm'[a] # adm[a]

\* C21: no PUT /api/users/:id/role and no PUT /api/users/:id request issued
\* by an admin takes the admin role from that admin, whatever role the body
\* carries: a step of such a request leaves its caller's stored role 'admin'.
C21_AdminKeepsOwnRole ==
    [][\A a \in Adms :
          (AdmActs(a) /\ adm[a].route \in {"userRole", "userUpdate"}
             /\ adm[a].user # None /\ adm[a].userRole = "admin"
             /\ users[adm[a].user].role = "admin") =>
             users'[adm[a].user].role = "admin"]_vars

\* C22: no request a user issues makes that user's own account inactive: PUT
\* /:id/status with isActive false and DELETE /:id on the caller's own id are
\* answered 400, and no step of a request, PUT /:id with isActive false
\* included, turns its caller's isActive from true to false.
C22_NoSelfDeactivation ==
    [][\A a \in Adms :
          /\ (AdmActs(a) /\ adm[a].user # None
                /\ users[adm[a].user].isActive) =>
                users'[adm[a].user].isActive
          /\ (AdmActs(a) /\ adm[a].pc = "saving"
                /\ adm[a].target = adm[a].user) =>
                adm[a].isActive = Bool(TRUE)]_vars

\* The role and isActive of every stored user.
Privileges(us) == [u \in DOMAIN us |-> <<us[u].role, us[u].isActive>>]

\* C23: PUT /api/users/:id by a caller who is not an admin is answered 403,
\* changing nothing, unless :id is the caller's own id, and no step of such a
\* request changes any user's role or isActive, whatever the body carries;
\* a step of a PUT /api/users/:id request that changes one of the two
\* belongs to a caller with role 'admin'.
C23_UpdateKeepsPrivileges ==
    [][\A a \in Adms :
          (AdmActs(a) /\ adm[a].route = "userUpdate") =>
             /\ (adm[a].pc = "handler" /\ adm[a].userRole # "admin"
                   /\ adm'[a].target # adm[a].user) =>
                   /\ adm'[a].status = 403 /\ adm'[a].pc = "done"
                   /\ users' = users
             /\ (adm[a].pc = "handler" /\ adm'[a].status = 403) =>
                   adm[a].userRole # "admin" /\ adm'[a].target # adm[a].user
             /\ adm[a].userRole # "admin" =>
                   Privileges(users') = Privileges(users)
             /\ Privileges(users') # Privileges(users) =>
                   adm[a].userRole = "admin"]_vars

C23_Witness ==
    /\ adm["m1"].route = "userUpdate" /\ adm["m1"].token = "s1"
    /\ adm["m1"].target = "s1" /\ adm["m1"].status = 200
    /\ adm["m2"].route = "userUpdate" /\ adm["m2"].token = "s1"
    /\ adm["m2"].target = "a1" /\ adm["m2"].status = 403
    /\ users["s1"].role = "student" /\ users["a1"].role = "admin"

\* C29: once an active admin exists (there is one from the start), every
\* reachable state has a user with role 'admin' and isActive true, under any
\* interleaving of role, status, update and delete requests.
C29_ActiveAdminExists ==
    \E u \in DOMAIN users : users[u].role = "admin" /\ users[u].isActive

\* How often user u occurs in a list of students.
Occurrences(enrolledStudents, u) ==
    Cardinality({i \in DOMAIN enrolledStudents : enrolledStudents[i] = u})

\* C24: a user id occurs at most once in a course's enrolledStudents under
\* every interleaving of POST /api/courses/:id/enroll requests, two
\* concurrent ones by the same user included.
C24_EnrolledAtMostOnce ==
    \A c \in Courses, u \in Users :
        Occurrences(courses[c].enrolledStudents, u) <= 1

\* The Video records that point to the file at path.
RecordsOf(path) ==
    {v \in DOMAIN videos : videos[v] # NoVideo /\ videos[v].filePath = path}

\* C25: an upload that received a file and is answered anything but 201 has
\* left no file on disk, no Video record and no entry in a course's videos;
\* one answered 201 has its file on disk, one Video record pointing to it,
\* and that record's id in the videos of its course.
C25_UploadAllOrNothing ==
    (up.pc = "done" /\ up.path # None) =>
        IF up.status = 201
        THEN /\ disk[up.path].linked
             /\ RecordsOf(up.path) = {up.id}
             /\ up.id \in courses[up.courseId].videos
        ELSE /\ ~disk[up.path].linked
             /\ RecordsOf(up.path) = {}
             /\ \A c \in Courses : \A v \in NewVideoIds :
                   v \notin courses[c].videos

\* The deletion has answered success.
Deleted == del.pc = "done" /\ del.status = 200

\* C26: once DELETE /api/videos/:id has answered success the record is gone,
\* its file is off the disk and its id is out of its course's videos; a GET
\* /api/videos/stream/:id or GET /api/videos/:id for the id handled later is
\* answered 404; deleting an unknown id answers 404 and changes nothing.
C26_DeletedForGood ==
    [][/\ Deleted' =>
            /\ videos'[del'.id] = NoVideo
            /\ ~disk'[del'.video.filePath].linked
            /\ del'.id \notin courses'[del'.video.course].videos
       /\ (Deleted /\ FindStep("r1") /\ req'["r1"].id = del.id) =>
            req'["r1"].video = NoVideo
       /\ (HandleStep("r1") /\ req["r1"].video = NoVideo) => Answers404("r1")
       /\ (Deleted /\ AdmActs("m1") /\ adm'["m1"].pc = "done"
             /\ adm["m1"].pc = "handler" /\ adm'["m1"].target = del.id) =>
            adm'["m1"].status = 404
       /\ (del.pc = "auth" /\ del'.status = 404) => UNCHANGED Stored
      ]_vars

\* C27: the stored users have pairwise different lower-cased addresses, and
\* a registration is answered 201, its user stored, or 400, nothing stored
\* by it, also when two registrations of an address run concurrently.
C27_OneUserPerEmail ==
    /\ \A i, j \in DOMAIN accounts :
          ToLowerCase(accounts[i]) = ToLowerCase(accounts[j]) => i = j
    /\ \A g \in Regs : reg[g].pc = "done" => reg[g].status \in {201, 400}
    /\ \A g, h \in Regs :
          (g # h /\ reg[g].status = 201 /\ reg[h].status = 201) =>
              ToLowerCase(reg[g].email) # ToLowerCase(reg[h].email)

\* The step in which the handler of slot a answers a request to route.
Answer(a, route) ==
    adm[a].route = route /\ adm[a].pc # "done" /\ adm'[a].pc = "done"

\* C28: DELETE /api/courses/:id changes nothing but the course's isActive,
\* which it sets to false; no step sets a course's isActive back to true;
\* a GET /api/courses answered while a course is inactive does not list it,
\* a GET /api/courses/:id for it is answered 404, and a POST enroll that
\* loads it is answered 404 and writes nothing.
C28_SoftDeleteForGood ==
    [][/\ \A c \in Courses : ~courses[c].isActive => ~courses'[c].isActive
       /\ Answer("m1", "courseDelete") =>
            /\ UNCHANGED <<users, videos, files, disk>>
            /\ \A c \in Courses :
                  /\ courses'[c].videos = courses[c].videos
                  /\ courses'[c].enrolledStudents = courses[c].enrolledStudents
                  /\ courses'[c].isActive # courses[c].isActive =>
                        (c = adm["m1"].target /\ ~courses'[c].isActive)
            /\ adm'["m1"].status = 200 => ~courses'[adm["m1"].target].isActive
       /\ \A c \in Courses : ~courses[c].isActive =>
            /\ Answer("m2", "courseList") => c \notin adm'["m2"].listed
            /\ (Answer("m2", "courseGet") /\ adm'["m2"].target = c) =>
                  adm'["m2"].status = 404
            /\ (enr["e1"].pc = "auth" /\ enr["e1"].method = "POST"
                  /\ enr'["e1"].pc # "auth" /\ enr'["e1"].id = c) =>
                  /\ enr'["e1"].pc = "done"
                  /\ enr'["e1"].status = 404
                  /\ UNCHANGED Stored
      ]_vars

\* A soft-deleted course that kept its videos and its student; afterwards it
\* was asked for and not found, and an enrollment in it was answered 404.
C28_Witness ==
    /\ adm["m1"].route = "courseDelete" /\ adm["m1"].status = 200
    /\ ~courses["c1"].isActive
    /\ courses["c1"].videos = VideoIds
    /\ courses["c1"].enrolledStudents = <<"s1">>
    /\ adm["m2"].route = "courseGet" /\ adm["m2"].target = "c1"
    /\ adm["m2"].status = 404
    /\ enr["e1"].method = "POST" /\ enr["e1"].user = "s2"
    /\ enr["e1"].id = "c1" /\ enr["e1"].status = 404

\* No enroll or unenroll request is in progress.
EnrQuiet == \A e \in Enrs : enr[e].pc \in {"idle", "done"}

\* C30: whenever no enroll or unenroll request is in progress, a user is in
\* a course's enrolledStudents exactly when the course is in the user's
\* enrolledCourses.
C30_EnrollmentConsistent ==
    EnrQuiet =>
        \A u \in Users, c \in Courses :
            IsEnrolled(courses[c].enrolledStudents, u)
                <=> c \in users[u].enrolledCourses

====
